---- MODULE Spec2Model ----
(***************************************************************************)
(* Model of DCM130.py: the ScopetekDevice session (request encoding, the   *)
(* blocking control transfer, the settle delay, the status-byte decode)    *)
(* and the main program that opens the device and runs the fixed           *)
(* initialization sequence.                                                *)
(*                                                                         *)
(* Spec     : one ScopetekDevice session on an open handle; a caller       *)
(*            issues a sequence of request() calls and catches what they   *)
(*            raise.                                                       *)
(* SpecCall : one request() call on a fresh session, over a wide range of  *)
(*            arguments and device responses.                              *)
(* SpecMain : main(): open the device, run the initialization sequence,    *)
(*            exit.                                                        *)
(***************************************************************************)
EXTENDS Integers, Sequences, FiniteSets, TLC

VARIABLES
    pc,          \* main: "start", "running", "done", "failed"; "session" / "call" for a bare session
    usb_dev,     \* result of openByVendorIDAndProductID: "unset", "none" (no device) or "open" (an open handle)
    session,     \* a ScopetekDevice object has been constructed
    step,        \* main: index of the next statement of the initialization sequence
    stdout,      \* lines printed, each a sequence of tokens
    exitCode,    \* None while the process runs, Some(code) once it has exited
    issued,      \* request() calls made so far: <<request, index, value>>
    calls,       \* _controlTransfer calls made so far (the setup packet fields)
    log,         \* order of transfers and sleeps
    last         \* everything about the most recent request() call

vars == <<pc, usb_dev, session, step, stdout, exitCode, issued, calls, log, last>>

(***************************************************************************)
(* Bounds of the model.                                                    *)
(***************************************************************************)
MaxCalls == 2   \* Spec: request() calls made on the session
MaxSize == 2    \* SpecCall: largest explicit size= argument

(***************************************************************************)
(* Python values.                                                          *)
(***************************************************************************)
None == [some |-> FALSE]
Some(x) == [some |-> TRUE, val |-> x]

\* A member of the _Request enum; members compare equal only to themselves.
Member(name, value) == [type |-> "_Request", name |-> name, value |-> value]
\* A plain int passed where a _Request is expected; never equal to a member.
RawInt(n) == [type |-> "int", name |-> "", value |-> n]
\* None passed where a _Request is expected.
NoneRequest == [type |-> "NoneType", name |-> "", value |-> 0]

CONTROL == Member("CONTROL", 1)
REG_READ == Member("REG_READ", 10)
REG_WRITE == Member("REG_WRITE", 11)

HOST_TO_DEV == 64     \* 0x40
DEV_TO_HOST == 192    \* 0xc0
STATUS_OK == 8        \* 0x08
SETTLE == "sleep(0.002)"
PAUSE == "sleep(1)"
TRANSFER == "transfer"

(***************************************************************************)
(* ScopetekDevice.request, piece by piece.                                 *)
(***************************************************************************)

\* Faulty variant of RequestType: compares the request by its integer value,
\* as an IntEnum would.
RequestTypeByValue(request) ==
    IF request.value = CONTROL.value THEN Some(HOST_TO_DEV)
    ELSE IF request.value = REG_READ.value \/ request.value = REG_WRITE.value
         THEN Some(DEV_TO_HOST)
    ELSE None

\* Lines 46-54: the request type; None when the request is unknown (TypeError).
RequestType(request) ==
    IF request = CONTROL THEN Some(HOST_TO_DEV)
    ELSE IF request = REG_READ \/ request = REG_WRITE THEN Some(DEV_TO_HOST)
    ELSE None

\* Lines 46-52: the size after the branch on the request kind.
ComputedSize(request, size) ==
    IF request = CONTROL THEN 0
    ELSE IF size = None THEN 1 ELSE size.val

\* Python truth value of data: Optional[List[int]] ("if data").
Truthy(data) == data.some /\ Len(data.val) > 0

\* bytearray(n) for an int n: n zero bytes.
Zeros(n) == [i \in 1..n |-> 0]

\* Line 57: bytearray(data if data else size).
OutBuffer(data, size) == IF Truthy(data) THEN data.val ELSE Zeros(size)

\* int.from_bytes(bs, byteorder='big') for a bytes object bs.
RECURSIVE int_from_bytes(_)
int_from_bytes(bs) ==
    IF Len(bs) = 0 THEN 0
    ELSE 256 * int_from_bytes(SubSeq(bs, 1, Len(bs) - 1)) + bs[Len(bs)]

\* Line 80: iterating a c_char array yields one bytes object per element.
Decode(buffer) == [i \in 1..Len(buffer) |-> int_from_bytes(<<buffer[i]>>)]

\* Faulty variant of StatusFails: looks at the first byte (data[0]).
StatusFailsFirstByte(data) == data[1] # STATUS_OK

\* Line 85: the status check on the decoded data (non-empty).
StatusFails(data) == data[Len(data)] # STATUS_OK

\* Faulty variant of HasData: a one-byte buffer counts as empty.
HasDataOffByOne(buffer) == Len(buffer) > 1

\* Line 79: "if buffer" on the ctypes array: true when it has elements.
HasData(buffer) == Len(buffer) > 0

\* Faulty variant of TransferArgs: index and value passed in the order of
\* request()'s own parameters.
TransferArgsSwapped(request_type, request, index, value, buffer, timeout) ==
    [bmRequestType |-> request_type, bRequest |-> request.value,
     wValue |-> index, wIndex |-> value,
     buffer |-> buffer, length |-> Len(buffer), timeout |-> timeout]

\* Lines 67-76: the arguments of _controlTransfer
\* (request_type, request, value, index, data, length, timeout).
TransferArgs(request_type, request, index, value, buffer, timeout) ==
    [bmRequestType |-> request_type, bRequest |-> request.value,
     wValue |-> value, wIndex |-> index,
     buffer |-> buffer, length |-> Len(buffer), timeout |-> timeout]

\* The transport: a device-to-host transfer (bit 7 of bmRequestType) fills the
\* buffer in place with what the device sent (t.resp); a host-to-device transfer
\* leaves the buffer as it is. The length of the buffer never changes.
AfterTransfer(args, t) ==
    IF args.bmRequestType >= 128 THEN t.resp ELSE args.buffer

\* What a transfer of a buffer of n bytes can do: raise, or complete with n bytes.
DeviceBytes == {5, 8, 136}
Responses(n) == [1..n -> DeviceBytes]
TransportOutcomes(n) ==
    {[raise |-> TRUE, resp |-> Zeros(n)]} \cup {[raise |-> FALSE, resp |-> r] : r \in Responses(n)}

\* The value of one request() call: what it raised (if anything), what it
\* returned, the transfer it made and whether it slept.
NoCall == [raised |-> "", status |-> -1, ret |-> None, call |-> None,
           slept |-> FALSE, buffer |-> <<>>, checked |-> FALSE]

request(req, index, value, data, size, timeout, t) ==
    LET request_type == RequestType(req) IN
    IF request_type = None
    THEN [NoCall EXCEPT !.raised = "TypeError"]
    ELSE
      LET sz == ComputedSize(req, size)
          args == TransferArgs(request_type.val, req, index, value, OutBuffer(data, sz), timeout)
      IN
      IF t.raise
      THEN [NoCall EXCEPT !.raised = "USBError", !.call = Some(args)]
      ELSE
        LET buffer == AfterTransfer(args, t) IN
        IF HasData(buffer)
        THEN LET decoded == Decode(buffer) IN
             IF StatusFails(decoded)
             THEN [raised |-> "RuntimeError", status |-> decoded[Len(decoded)], ret |-> None,
                   call |-> Some(args), slept |-> TRUE, buffer |-> buffer, checked |-> TRUE]
             ELSE [raised |-> "", status |-> -1, ret |-> Some(decoded),
                   call |-> Some(args), slept |-> TRUE, buffer |-> buffer, checked |-> TRUE]
        ELSE [raised |-> "", status |-> -1, ret |-> None,
              call |-> Some(args), slept |-> TRUE, buffer |-> buffer, checked |-> FALSE]

(***************************************************************************)
(* State changes of one request() call.                                    *)
(***************************************************************************)
NoLast == [made |-> FALSE, req |-> NoneRequest, index |-> 0, value |-> 0,
           data |-> None, size |-> None, timeout |-> 0,
           t |-> [raise |-> FALSE, resp |-> <<>>], res |-> NoCall]

\* Length of the buffer a request() call hands to the transport (0 when it
\* raises before the transfer).
BufferLength(req, data, size) ==
    IF RequestType(req) = None THEN 0
    ELSE Len(OutBuffer(data, ComputedSize(req, size)))

Setup(args) == [bmRequestType |-> args.bmRequestType, bRequest |-> args.bRequest,
                wValue |-> args.wValue, wIndex |-> args.wIndex]

\* dev.request(req, index, value, data=data, size=size, timeout=timeout) with
\* the transport behaving as t.
DoRequest(req, index, value, data, size, timeout, t) ==
    LET res == request(req, index, value, data, size, timeout, t) IN
    /\ issued' = Append(issued, [req |-> req, index |-> index, value |-> value])
    /\ calls' = IF res.call.some THEN Append(calls, Setup(res.call.val)) ELSE calls
    /\ log' = log \o (IF res.call.some THEN <<TRANSFER>> ELSE <<>>)
                  \o (IF res.slept THEN <<SETTLE>> ELSE <<>>)
    /\ last' = [made |-> TRUE, req |-> req, index |-> index, value |-> value,
                data |-> data, size |-> size, timeout |-> timeout, t |-> t, res |-> res]

(***************************************************************************)
(* Spec: a session on an open handle, driven by a caller that catches.     *)
(***************************************************************************)
Requests == {CONTROL, REG_READ, REG_WRITE, RawInt(1), RawInt(10), RawInt(11), NoneRequest}
Indexes == {15, 34}
Values == {1}
Payloads == {None, Some(<<8>>)}
Sizes == {None, Some(2)}
Timeouts == {0}

\* State right after dev = ScopetekDevice(usb_dev) on an open handle.
Constructed(at) ==
    /\ pc = at
    /\ usb_dev = "open"
    /\ session = TRUE
    /\ step = 0
    /\ stdout = <<>>
    /\ exitCode = None
    /\ issued = <<>>
    /\ calls = <<>>
    /\ log = <<>>

Init == Constructed("session") /\ last = NoLast

\* One dev.request(...) by a caller that catches TypeError, RuntimeError and
\* usb1.USBError and carries on.
Request ==
    /\ pc = "session"
    /\ Len(issued) < MaxCalls
    /\ \E req \in Requests, index \in Indexes, value \in Values,
          data \in Payloads, size \in Sizes, timeout \in Timeouts :
         \E t \in TransportOutcomes(BufferLength(req, data, size)) :
            DoRequest(req, index, value, data, size, timeout, t)
    /\ UNCHANGED <<pc, usb_dev, session, step, stdout, exitCode>>

Next == Request

Spec == Init /\ [][Next]_vars

(***************************************************************************)
(* SpecCall: one call, the arguments drawn in the initial state.           *)
(***************************************************************************)
CallIndexes == {15, 34}
CallValues == {1, 51}
CallPayloads == {None, Some(<<>>), Some(<<51>>), Some(<<1, 8>>)}
CallSizes == {None} \cup {Some(n) : n \in 0..MaxSize}
CallTimeouts == {0, 100}

InitCall ==
    /\ Constructed("call")
    /\ \E req \in Requests, index \in CallIndexes, value \in CallValues,
          data \in CallPayloads, size \in CallSizes, timeout \in CallTimeouts :
         last = [NoLast EXCEPT !.req = req, !.index = index, !.value = value,
                               !.data = data, !.size = size, !.timeout = timeout]

Call ==
    /\ pc = "call"
    /\ ~last.made
    /\ \E t \in TransportOutcomes(BufferLength(last.req, last.data, last.size)) :
         DoRequest(last.req, last.index, last.value, last.data, last.size, last.timeout, t)
    /\ UNCHANGED <<pc, usb_dev, session, step, stdout, exitCode>>

NextCall == Call

SpecCall == InitCall /\ [][NextCall]_vars

(***************************************************************************)
(* SpecMain: the program.                                                  *)
(***************************************************************************)
VENDOR_ID == "0x0547"
PRODUCT_ID == "0x4d33"

\* _error(msg, code=1): the line printed and the exit code. The prefix is
\* coloured when stdout is a terminal.
Error(msg, tty) ==
    [line |-> <<IF tty THEN "\\33[91mERROR\\33[0m" ELSE "ERROR", " ">> \o msg, code |-> 1]

\* The message of line 98, cut at the two IDs.
NotFoundMessage == <<"Device not found (", VENDOR_ID, ", ", PRODUCT_ID, ")">>

\* Faulty variant of NotFound: the missing-device test never fires.
NotFoundNever(dev) == FALSE

\* "if not usb_dev": openByVendorIDAndProductID returned no handle.
NotFound(dev) == dev # "open"

\* A statement of main after the session is built.
Req(kind, index, value) ==
    [op |-> "request", req |-> kind, index |-> index, value |-> value,
     data |-> None, size |-> None, timeout |-> 0]
Read3(index, value) == [Req(REG_READ, index, value) EXCEPT !.size = Some(3)]
Sleep1 == [op |-> "sleep"]

\* Lines 102-145, in order (index, value in decimal).
Program == <<
    Req(CONTROL, 15, 1),          \* 0x000f, 0x0001
    Req(CONTROL, 15, 0),          \* 0x000f, 0x0000
    Req(CONTROL, 15, 1),          \* 0x000f, 0x0001
    Read3(0, 0),                  \* 0x0000, 0x0000, size=3
    Req(REG_WRITE, 10, 32768),    \* 0x000a, 0x8000
    Req(REG_WRITE, 13, 1),        \* 0x000d, 0x0001
    Req(REG_WRITE, 13, 0),        \* 0x000d, 0x0000
    Sleep1,                       \* time.sleep(1)
    Req(REG_WRITE, 1, 21),        \* 0x0001, 0x0015
    Req(REG_WRITE, 2, 33),        \* 0x0002, 0x0021
    Req(REG_WRITE, 32, 0),        \* 0x0020, 0x0000
    Req(REG_WRITE, 30, 32832),    \* 0x001e, 0x8040
    Req(REG_WRITE, 78, 48),       \* 0x004e, 0x0030
    Req(REG_WRITE, 4, 2047),      \* 0x0004, 0x07ff
    Req(REG_WRITE, 3, 1535),      \* 0x0003, 0x05ff
    Req(REG_WRITE, 43, 96),       \* 0x002b, 0x0060
    Req(REG_WRITE, 44, 96),       \* 0x002c, 0x0060
    Req(REG_WRITE, 45, 96),       \* 0x002d, 0x0060
    Req(REG_WRITE, 46, 96),       \* 0x002e, 0x0060
    Req(REG_WRITE, 10, 32769),    \* 0x000a, 0x8001
    Req(REG_WRITE, 34, 51),       \* 0x0022, 0x0033
    Req(REG_WRITE, 35, 51),       \* 0x0023, 0x0033
    Req(REG_WRITE, 5, 336),       \* 0x0005, 0x0150
    Req(REG_WRITE, 10, 32768),    \* 0x000a, 0x8000
    Req(REG_WRITE, 5, 768),       \* 0x0005, 0x0300
    Read3(5, 0),                  \* 0x0005, 0x0000, size=3
    Read3(4, 0),                  \* 0x0004, 0x0000, size=3
    Read3(2, 0),                  \* 0x0002, 0x0000, size=3
    Req(REG_WRITE, 9, 300),       \* 0x0009, 0x012c
    Req(REG_WRITE, 53, 86),       \* 0x0035, 0x0056
    Req(CONTROL, 15, 3) >>        \* 0x000f, 0x0003

\* Faulty variant of Propagates: a device error is swallowed.
PropagatesUSBErrorOnly(res) == res.raised = "USBError"

\* An exception raised by request() is caught nowhere in main: it ends the run.
Propagates(res) == res.raised # ""

InitMain ==
    /\ pc = "start"
    /\ usb_dev = "unset"
    /\ session = FALSE
    /\ step = 0
    /\ stdout = <<>>
    /\ exitCode = None
    /\ issued = <<>>
    /\ calls = <<>>
    /\ log = <<>>
    /\ last = NoLast

\* After statement number step has completed: the next one, or the end of
\* main and exit with code 0.
Advance ==
    /\ step' = step + 1
    /\ pc' = IF step = Len(Program) THEN "done" ELSE "running"
    /\ exitCode' = IF step = Len(Program) THEN Some(0) ELSE None

\* Lines 94-100: open the device; without one, _error prints and exits.
MainOpen ==
    /\ pc = "start"
    /\ \E found \in {"none", "open"}, tty \in BOOLEAN :
         /\ usb_dev' = found
         /\ IF NotFound(found)
            THEN LET e == Error(NotFoundMessage, tty) IN
                 /\ stdout' = Append(stdout, e.line)
                 /\ exitCode' = Some(e.code)
                 /\ pc' = "failed"
                 /\ UNCHANGED <<session, step>>
            ELSE /\ session' = TRUE
                 /\ step' = 1
                 /\ pc' = "running"
                 /\ UNCHANGED <<stdout, exitCode>>
    /\ UNCHANGED <<issued, calls, log, last>>

\* One dev.request(...) statement of lines 102-145.
MainRequest ==
    /\ pc = "running"
    /\ Program[step].op = "request"
    /\ LET s == Program[step] IN
       \E t \in TransportOutcomes(BufferLength(s.req, s.data, s.size)) :
         /\ DoRequest(s.req, s.index, s.value, s.data, s.size, s.timeout, t)
         /\ IF Propagates(request(s.req, s.index, s.value, s.data, s.size, s.timeout, t))
            THEN /\ pc' = "failed"
                 /\ exitCode' = Some(1)
                 /\ UNCHANGED step
            ELSE Advance
    /\ UNCHANGED <<usb_dev, session, stdout>>

\* Line 112: time.sleep(1).
MainSleep ==
    /\ pc = "running"
    /\ Program[step].op = "sleep"
    /\ log' = Append(log, PAUSE)
    /\ Advance
    /\ UNCHANGED <<usb_dev, session, stdout, issued, calls, last>>

NextMain == MainOpen \/ MainRequest \/ MainSleep

SpecMain == InitMain /\ [][NextMain]_vars

(***************************************************************************)
(* Properties.                                                             *)
(***************************************************************************)
KnownRequests == {CONTROL, REG_READ, REG_WRITE}

\* The most recent call reached the transport and the transfer completed.
Completed == last.made /\ last.res.call.some /\ ~last.t.raise

\* The buffer as the completed transfer left it: what the device sent on a
\* device-to-host transfer, the outgoing bytes on a host-to-device one.
ReceivedBuffer ==
    IF ~Completed THEN <<>>
    ELSE IF last.res.call.val.bmRequestType >= 128 THEN last.t.resp
    ELSE last.res.call.val.buffer

Range(f) == {f[i] : i \in DOMAIN f}

RequestsUpTo(n) == Cardinality({i \in 1..n : i <= Len(Program) /\ Program[i].op = "request"})

\* C1: a completed transfer with a non-empty buffer whose last byte is not
\* 0x08 makes request() raise the device error carrying that byte and return
\* nothing; with last byte 0x08 request() returns the buffer as the list of
\* its unsigned byte values, same length and order.
C1_StatusByteDecides ==
    (Completed /\ Len(ReceivedBuffer) >= 1) =>
        LET buf == ReceivedBuffer IN
        IF buf[Len(buf)] # 8
        THEN /\ last.res.raised = "RuntimeError"
             /\ last.res.status = buf[Len(buf)]
             /\ last.res.ret = None
        ELSE /\ last.res.raised = ""
             /\ last.res.ret = Some(buf)
             /\ \A i \in 1..Len(buf) : last.res.ret.val[i] \in 0..255

C1_Witness ==
    /\ Completed
    /\ Len(ReceivedBuffer) = 2
    /\ last.data = Some(<<1, 8>>)
    /\ last.res.raised = "RuntimeError"
    /\ last.res.status = 136

\* C2 (as claimed): every CONTROL request is host-to-device and hands the
\* transport a buffer of length 0 with length argument 0, whatever payload
\* and size the caller gives.
C2_ControlSendsNothing ==
    (last.made /\ last.req = CONTROL) =>
        /\ last.res.call.some
        /\ last.res.call.val.bmRequestType = 64
        /\ Len(last.res.call.val.buffer) = 0
        /\ last.res.call.val.length = 0

\* C3: in main, a request that fails (transport error, or a response whose
\* last byte is not 0x08) ends the run in failure with a non-zero exit code,
\* with exactly one transfer per request up to and including the failed one
\* and none after it; exit code 0 is reached only at the end of the
\* sequence, after every request completed without error.
C3_AllOrNothing ==
    LET failedNow ==
            /\ last.made
            /\ \/ last.t.raise
               \/ (Len(ReceivedBuffer) > 0 /\ ReceivedBuffer[Len(ReceivedBuffer)] # 8)
    IN
    /\ failedNow =>
          /\ pc = "failed"
          /\ exitCode # None /\ exitCode.val # 0
          /\ Len(issued) = RequestsUpTo(step)
          /\ Len(calls) = RequestsUpTo(step)
    /\ pc = "done" =>
          /\ ~failedNow
          /\ exitCode = Some(0)
          /\ step = Len(Program) + 1
          /\ Len(calls) = RequestsUpTo(Len(Program))
    /\ exitCode = Some(0) => pc = "done"
    /\ pc = "running" =>
          /\ exitCode = None
          /\ Len(calls) = RequestsUpTo(step - 1)

C3_Witness ==
    /\ pc = "failed"
    /\ step = 26
    /\ last.res.raised = "RuntimeError"
    /\ last.res.status = 5
    /\ Len(calls) = 25

\* C4 (as claimed): between any two transport calls of a session there is a
\* 2 ms settle delay, whatever the outcome of the earlier one.
C4_SettleBetweenTransfers ==
    \A i, j \in 1..Len(log) :
        (i < j /\ log[i] = TRANSFER /\ log[j] = TRANSFER) =>
            \E k \in (i + 1)..(j - 1) : log[k] = SETTLE

\* C5 (as claimed): once main has opened the handle, no terminated state of
\* the program has the handle still open.
C5_HandleClosedOnExit ==
    pc \in {"done", "failed"} => usb_dev # "open"

\* C6: with no device present the program prints one error line naming both
\* IDs, exits non-zero, builds no session and makes no request and no
\* transport call.
C6_NotFoundExits ==
    usb_dev = "none" =>
        /\ pc = "failed"
        /\ exitCode # None /\ exitCode.val # 0
        /\ Len(stdout) = 1
        /\ {VENDOR_ID, PRODUCT_ID} \subseteq Range(stdout[1])
        /\ ~session
        /\ issued = <<>>
        /\ calls = <<>>
        /\ log = <<>>

C6_Witness ==
    /\ usb_dev = "none"
    /\ pc = "failed"
    /\ stdout # <<>>

\* C7: a request() call whose kind is not CONTROL, REG_READ or REG_WRITE
\* (a raw 1, 10 or 11, or None) raises the unsupported-request error and
\* adds no transport call and no delay.
C7_UnknownRequestTouchesNothing ==
    [][(issued' # issued /\ last'.req \notin KnownRequests) =>
          /\ last'.res.raised = "TypeError"
          /\ last'.res.call = None
          /\ calls' = calls
          /\ log' = log]_vars

C7_Witness ==
    /\ Len(issued) = 2
    /\ issued[1].req = REG_WRITE
    /\ last.req = RawInt(11)
    /\ last.res.raised = "TypeError"
    /\ Len(calls) = 1

\* C8: a completed transfer with an empty buffer makes request() return None
\* without raising and without a status check; and request() returns None
\* only after a completed transfer with an empty buffer.
C8_EmptyBufferIsNone ==
    last.made =>
        /\ (Completed /\ Len(ReceivedBuffer) = 0) =>
              /\ last.res.raised = ""
              /\ last.res.ret = None
              /\ ~last.res.checked
        /\ (last.res.raised = "" /\ last.res.ret = None) =>
              (Completed /\ Len(ReceivedBuffer) = 0)

C8_Witness ==
    /\ Completed
    /\ last.req = REG_READ
    /\ last.size = Some(0)
    /\ last.data = Some(<<>>)
    /\ last.res.raised = ""
    /\ last.res.ret = None

\* C9 (as claimed): a REG_READ / REG_WRITE request hands the transport the
\* caller's payload whenever one is given, an empty one included, and
\* otherwise size zero bytes (size 1 when none is given); the length
\* argument is the length of that buffer.
C9_BufferIsPayloadOrZeros ==
    (last.made /\ last.req \in {REG_READ, REG_WRITE}) =>
        /\ last.res.call.some
        /\ last.res.call.val.buffer =
              (IF last.data.some THEN last.data.val
               ELSE Zeros(IF last.size = None THEN 1 ELSE last.size.val))
        /\ last.res.call.val.length = Len(last.res.call.val.buffer)

\* C10: the transport calls are the in-order image of the valid requests:
\* one call per request, the k-th call built from the k-th request, with
\* bmRequestType 0x40 / 0xC0, bRequest 1 / 10 / 11, wValue = value and
\* wIndex = index.
C10_CallsMirrorRequests ==
    LET valid == SelectSeq(issued, LAMBDA r : r.req \in KnownRequests) IN
    /\ Len(calls) = Len(valid)
    /\ \A k \in 1..Len(valid) :
          /\ calls[k].bmRequestType = (IF valid[k].req.name = "CONTROL" THEN 64 ELSE 192)
          /\ calls[k].bRequest =
                (CASE valid[k].req.name = "CONTROL" -> 1
                   [] valid[k].req.name = "REG_READ" -> 10
                   [] valid[k].req.name = "REG_WRITE" -> 11)
          /\ calls[k].wValue = valid[k].value
          /\ calls[k].wIndex = valid[k].index

C10_Witness ==
    /\ Len(calls) = 2
    /\ issued[1].req = REG_WRITE /\ issued[1].index = 34
    /\ issued[2].req = CONTROL /\ issued[2].index = 15
    /\ calls[1].bRequest = 11
    /\ calls[2].bRequest = 1

====
